---------------------------- MODULE Spec2Model ----------------------------
(***************************************************************************)
(* A model of the batchexecute codec of nlm-py                             *)
(* (src/nlm/api/batchexecute.py): the request-id generator, the envelope   *)
(* encoder, the request construction, the HTTP status classification and   *)
(* the two response decoders.                                              *)
(*                                                                         *)
(* Text (a Python str) is a sequence of tokens.  A token is one character  *)
(* of those that JSON, the framing and the escaping depend on (brackets,   *)
(* braces, comma, colon, quote, backslash, space, newline, the decimal     *)
(* digits, the signs, the characters of the anti-hijacking prefix), or one *)
(* opaque run of other characters (a word such as wrb.fr).                 *)
(*                                                                         *)
(* An operator that needs an intermediate value more than once hands it to *)
(* a local operator as an argument.                                        *)
(***************************************************************************)
EXTENDS Integers, Sequences, FiniteSets, TLC

(***************************************************************************)
(* Characters                                                              *)
(***************************************************************************)
Q  == "\""
BS == "\\"
NL == "\n"
SP == " "

Digits == <<"0", "1", "2", "3", "4", "5", "6", "7", "8", "9">>

IsDigit(c) == \E d \in 1..10 : Digits[d] = c

DigitVal(c) == (CHOOSE d \in 1..10 : Digits[d] = c) - 1

\* the whitespace of str.strip() and of JSON: space and newline are the
\* whitespace characters of the alphabet
Space == {SP, NL}

(***************************************************************************)
(* Python str operations                                                   *)
(***************************************************************************)
RECURSIVE Join(_, _)
\* sep.join(parts)
Join(parts, sep) ==
    IF parts = <<>> THEN <<>>
    ELSE IF Len(parts) = 1 THEN parts[1]
    ELSE parts[1] \o sep \o Join(Tail(parts), sep)

\* the least position from i on whose character is not in chars, or
\* Len(s) + 1
FirstNotIn(s, i, chars) ==
    CHOOSE j \in i..(Len(s) + 1) :
        /\ j = Len(s) + 1 \/ s[j] \notin chars
        /\ \A k \in i..(j - 1) : s[k] \in chars

\* the least position from i on whose character is c, or Len(s) + 1
FirstOf(s, i, c) ==
    CHOOSE j \in i..(Len(s) + 1) :
        /\ j = Len(s) + 1 \/ s[j] = c
        /\ \A k \in i..(j - 1) : s[k] # c

\* the greatest position whose character is not in chars, or 0
LastNotIn(s, chars) ==
    CHOOSE j \in 0..Len(s) :
        /\ j = 0 \/ s[j] \notin chars
        /\ \A k \in (j + 1)..Len(s) : s[k] \in chars

\* s.lstrip(chars): drops every leading character that is in the set chars
LStripChars(s, chars) == SubSeq(s, FirstNotIn(s, 1, chars), Len(s))

\* s.rstrip(chars)
RStripChars(s, chars) == SubSeq(s, 1, LastNotIn(s, chars))

\* s.strip()
Strip(s) == RStripChars(LStripChars(s, Space), Space)

RECURSIVE Split(_, _)
\* s.split(sep) for a one-character separator
Split(s, sep) ==
    LET At(j) ==
            IF j > Len(s) THEN <<s>>
            ELSE <<SubSeq(s, 1, j - 1)>> \o Split(SubSeq(s, j + 1, Len(s)), sep)
    IN  At(FirstOf(s, 1, sep))

RECURSIVE NatToStr(_)
\* str(n) for n >= 0
NatToStr(n) ==
    IF n < 10 THEN <<Digits[n + 1]>>
    ELSE Append(NatToStr(n \div 10), Digits[(n % 10) + 1])

\* str(n)
IntToStr(n) == IF n < 0 THEN <<"-">> \o NatToStr(-n) ELSE NatToStr(n)

RECURSIVE DigitsVal(_, _)
\* the number that the decimal digits s denote, after the digits read so far
DigitsVal(s, acc) ==
    IF s = <<>> THEN acc ELSE DigitsVal(Tail(s), 10 * acc + DigitVal(s[1]))

AllDigits(s) == s # <<>> /\ \A i \in 1..Len(s) : IsDigit(s[i])

\* int(s): surrounding whitespace is ignored, an optional sign, then decimal
\* digits, single underscores between digits allowed; anything else raises
\* ValueError (ok = FALSE).
PyInt(s) ==
    LET Signed(t) == t # <<>> /\ t[1] \in {"-", "+"}
        Grouped(body) ==
            \A i \in 1..Len(body) :
                \/ IsDigit(body[i])
                \/ /\ body[i] = "_" /\ 1 < i /\ i < Len(body)
                   /\ IsDigit(body[i - 1]) /\ IsDigit(body[i + 1])
        Number(neg, digits) ==
            [ok |-> TRUE, n |-> IF neg THEN -DigitsVal(digits, 0)
                                ELSE DigitsVal(digits, 0)]
        Value(neg, body) ==
            IF body # <<>> /\ Grouped(body)
            THEN Number(neg, SelectSeq(body, IsDigit))
            ELSE [ok |-> FALSE, n |-> 0]
        Of(t) == Value(t # <<>> /\ t[1] = "-", IF Signed(t) THEN Tail(t) ELSE t)
    IN  Of(Strip(s))

(***************************************************************************)
(* JSON values (and the Python values they load to).  Every value is a     *)
(* record with the same fields: t the type, n the number (or the truth     *)
(* value of a bool), s the characters of a string, a the elements of an    *)
(* array, or the keys and values of an object in alternation.              *)
(***************************************************************************)
JNull    == [t |-> "null", n |-> 0, s |-> <<>>, a |-> <<>>]
JNum(n)  == [t |-> "num", n |-> n, s |-> <<>>, a |-> <<>>]
JBool(b) == [t |-> "bool", n |-> IF b THEN 1 ELSE 0, s |-> <<>>, a |-> <<>>]
JStr(s)  == [t |-> "str", n |-> 0, s |-> s, a |-> <<>>]
JArr(a)  == [t |-> "arr", n |-> 0, s |-> <<>>, a |-> a]
JObj(a)  == [t |-> "obj", n |-> 0, s |-> <<>>, a |-> a]

\* no character escaped
EscapeCharPlain(c) == <<c>>

\* one character of the body of a JSON string literal: quote, backslash and
\* newline are escaped
EscapeChar(c) ==
    IF c = Q THEN <<BS, Q>>
    ELSE IF c = BS THEN <<BS, BS>>
    ELSE IF c = NL THEN <<BS, "n">>
    ELSE <<c>>

\* the body of a JSON string literal
EscapeStr(s) == Join([i \in 1..Len(s) |-> EscapeChar(s[i])], <<>>)

RECURSIVE Dumps(_)
\* json.dumps(v), with the default separators ", " and ": "
Dumps(v) ==
    CASE v.t = "null" -> <<"null">>
      [] v.t = "bool" -> IF v.n = 1 THEN <<"true">> ELSE <<"false">>
      [] v.t = "num"  -> IntToStr(v.n)
      [] v.t = "str"  -> <<Q>> \o EscapeStr(v.s) \o <<Q>>
      [] v.t \in {"arr", "obj"} ->
            LET Sep(i) ==
                    IF i = Len(v.a) THEN <<>>
                    ELSE IF v.t = "obj" /\ i % 2 = 1 THEN <<":", SP>>
                    ELSE <<",", SP>>
            IN  <<IF v.t = "obj" THEN "{" ELSE "[">>
                    \o Join([i \in 1..Len(v.a) |-> Dumps(v.a[i]) \o Sep(i)], <<>>)
                    \o <<IF v.t = "obj" THEN "}" ELSE "]">>

(***************************************************************************)
(* json.loads                                                              *)
(***************************************************************************)
\* the result of a parse step: the value and the position after it
PFail == [ok |-> FALSE, v |-> JNull, i |-> 1]

POk(v, i) == [ok |-> TRUE, v |-> v, i |-> i]

\* the position of the first character from i on that is not whitespace
SkipWs(x, i) == FirstNotIn(x, i, Space)

\* the number of backslashes that stand immediately before position p, from
\* position lo on
BackslashRun(x, lo, p) ==
    CHOOSE r \in 0..(p - lo) :
        /\ r = p - lo \/ x[p - 1 - r] # BS
        /\ \A k \in 1..r : x[p - k] = BS

\* the character at p is escaped: an odd number of backslashes precedes it
Escaped(x, lo, p) == BackslashRun(x, lo, p) % 2 = 1

\* the closing quote of the string literal whose body starts at j: the first
\* quote that is not escaped, or Len(x) + 1
ClosingQuote(x, j) ==
    CHOOSE e \in j..(Len(x) + 1) :
        /\ e = Len(x) + 1 \/ (x[e] = Q /\ ~Escaped(x, j, e))
        /\ \A k \in j..(e - 1) : ~(x[k] = Q /\ ~Escaped(x, j, k))

\* the characters of a string literal from position j on (after the opening
\* quote) up to the closing quote.  A raw newline (a control character) and
\* an escape other than \" \\ \n are rejected.
ScanStr(x, j) ==
    LET Cell(p, esc) == [c |-> x[p], esc |-> esc, intro |-> x[p] = BS /\ ~esc]
        Char(cell) == IF cell.esc /\ cell.c = "n" THEN NL ELSE cell.c
        Text(kept) == JStr([k \in 1..Len(kept) |-> Char(kept[k])])
        Body(close, cells) ==
            IF close > Len(x) THEN PFail
            ELSE IF \E k \in 1..Len(cells) :
                        \/ cells[k].c = NL
                        \/ cells[k].esc /\ cells[k].c \notin {Q, BS, "n"}
            THEN PFail
            ELSE POk(Text(SelectSeq(cells, LAMBDA cell : ~cell.intro)), close + 1)
        UpTo(close) ==
            Body(close,
                 [k \in 1..(close - j) |-> Cell(j + k - 1, Escaped(x, j, j + k - 1))])
    IN  UpTo(ClosingQuote(x, j))

\* the position after the run of digits that starts at i
DigitsEnd(x, i) ==
    CHOOSE j \in i..(Len(x) + 1) :
        /\ j = Len(x) + 1 \/ ~IsDigit(x[j])
        /\ \A k \in i..(j - 1) : IsDigit(x[k])

\* an integer literal at position i: an optional minus, then 0 or a run of
\* digits that does not start with 0
ScanNum(x, i) ==
    LET Num(neg, n, e) == POk(JNum(IF neg THEN -n ELSE n), e)
        Span(neg, b, e) ==
            IF e = b THEN PFail ELSE Num(neg, DigitsVal(SubSeq(x, b, e - 1), 0), e)
        From(neg, b) ==
            Span(neg, b, IF b <= Len(x) /\ x[b] = "0" THEN b + 1 ELSE DigitsEnd(x, b))
    IN  From(x[i] = "-", IF x[i] = "-" THEN i + 1 ELSE i)

RECURSIVE ParseValue(_, _)
RECURSIVE ParseElems(_, _, _)
RECURSIVE ParseMembers(_, _, _)

\* the elements of an array from position i on, after the elements acc
ParseElems(x, i, acc) ==
    LET After(r, k) ==
            IF ~r.ok \/ k > Len(x) THEN PFail
            ELSE IF x[k] = "," THEN ParseElems(x, SkipWs(x, k + 1), Append(acc, r.v))
            ELSE IF x[k] = "]" THEN POk(JArr(Append(acc, r.v)), k + 1)
            ELSE PFail
        Elem(r) == After(r, SkipWs(x, r.i))
    IN  Elem(ParseValue(x, i))

\* the members of an object from position i on, after the members acc
ParseMembers(x, i, acc) ==
    LET After(key, r, k) ==
            IF ~r.ok \/ k > Len(x) THEN PFail
            ELSE IF x[k] = ","
            THEN ParseMembers(x, SkipWs(x, k + 1), acc \o <<key.v, r.v>>)
            ELSE IF x[k] = "}" THEN POk(JObj(acc \o <<key.v, r.v>>), k + 1)
            ELSE PFail
        Member(key, r) == After(key, r, SkipWs(x, r.i))
        Colon(key, c) ==
            IF ~key.ok \/ c > Len(x) \/ x[c] # ":" THEN PFail
            ELSE Member(key, ParseValue(x, SkipWs(x, c + 1)))
        Key(key) == Colon(key, SkipWs(x, key.i))
    IN  IF i > Len(x) \/ x[i] # Q THEN PFail ELSE Key(ScanStr(x, i + 1))

\* the JSON value that starts at position i
ParseValue(x, i) ==
    LET Array(j) ==
            IF j <= Len(x) /\ x[j] = "]" THEN POk(JArr(<<>>), j + 1)
            ELSE ParseElems(x, j, <<>>)
        Object(j) ==
            IF j <= Len(x) /\ x[j] = "}" THEN POk(JObj(<<>>), j + 1)
            ELSE ParseMembers(x, j, <<>>)
    IN  IF i > Len(x) THEN PFail
        ELSE IF x[i] = "null" THEN POk(JNull, i + 1)
        ELSE IF x[i] = "true" THEN POk(JBool(TRUE), i + 1)
        ELSE IF x[i] = "false" THEN POk(JBool(FALSE), i + 1)
        ELSE IF x[i] = Q THEN ScanStr(x, i + 1)
        ELSE IF x[i] = "-" \/ IsDigit(x[i]) THEN ScanNum(x, i)
        ELSE IF x[i] = "[" THEN Array(SkipWs(x, i + 1))
        ELSE IF x[i] = "{" THEN Object(SkipWs(x, i + 1))
        ELSE PFail

\* json.loads(x): one value, surrounded by optional whitespace, and nothing
\* else; ok = FALSE stands for json.JSONDecodeError
Loads(x) ==
    LET Whole(r) ==
            IF r.ok /\ SkipWs(x, r.i) = Len(x) + 1
            THEN [ok |-> TRUE, v |-> r.v]
            ELSE [ok |-> FALSE, v |-> JNull]
    IN  Whole(ParseValue(x, SkipWs(x, 1)))

(***************************************************************************)
(* Python values of the codec                                              *)
(***************************************************************************)
\* a one-word str
Word(w) == JStr(<<w>>)

\* Response(id, data, index = 0, error = "")
Response(id, data) == [id |-> id, data |-> data, index |-> 0, error |-> <<>>]

\* the http response object
HttpResponse(status, reason, text) ==
    [status_code |-> status, reason |-> reason, text |-> text]

\* None in the place of an http response
NoResponse == [status_code |-> -1, reason |-> <<>>, text |-> <<>>]

\* The outcome of a call: exc = "" when it returned (value holds the records
\* returned; a single Response is the sequence of that one record),
\* otherwise the class of the exception raised, with the attributes of a
\* BatchExecuteError.
Return(recs) ==
    [exc |-> "", status_code |-> 0, message |-> <<>>, response |-> NoResponse,
     value |-> recs]

\* an exception of a built-in class
Raise(exc) ==
    [exc |-> exc, status_code |-> 0, message |-> <<>>, response |-> NoResponse,
     value |-> <<>>]

\* BatchExecuteError(status_code, message, response)
BatchExecuteError(status, message, response) ==
    [exc |-> "BatchExecuteError", status_code |-> status, message |-> message,
     response |-> response, value |-> <<>>]

\* UnauthorizedError("Unauthorized request")
UnauthorizedError ==
    [exc |-> "UnauthorizedError", status_code |-> 0,
     message |-> <<"Unauthorized request">>, response |-> NoResponse,
     value |-> <<>>]

(***************************************************************************)
(* The response decoders                                                   *)
(***************************************************************************)
\* the anti-hijacking prefix )]}' as the character set that lstrip drops
PrefixChars == {")", "]", "}", "'"}

RespTag == "wrb.fr"

MinFields == 7

\* len(rpc_data) raises TypeError for a value that has no length
HasLen(v) == v.t \in {"arr", "str", "obj"}

\* len(rpc_data); a str is skipped whatever its length, so its token count
\* stands for it
PyLen(v) ==
    CASE v.t = "arr" -> Len(v.a)
      [] v.t = "obj" -> Len(v.a) \div 2
      [] v.t = "str" -> Len(v.s)

\* the index read as a run of decimal digits only
IndexOfDigits(f) ==
    IF f.t = "str" /\ AllDigits(f.s) THEN DigitsVal(f.s, 0) ELSE 0

\* the index of a record from field 6: "generic" and every value that is not
\* an integer string leave the default 0
IndexOf(f) ==
    LET Parsed(r) == IF r.ok THEN r.n ELSE 0
    IN  IF f = Word("generic") THEN 0
        ELSE IF f.t = "str" THEN Parsed(PyInt(f.s))
        ELSE 0

\* the text that json.loads(f'"{text}"') yields: text read as the body of a
\* JSON string literal, which must close at the very end
Unescape(text) ==
    LET Closed(quoted, r) ==
            IF r.ok /\ r.i = Len(quoted) + 1
            THEN [ok |-> TRUE, s |-> r.v.s]
            ELSE [ok |-> FALSE, s |-> <<>>]
        Of(quoted) == Closed(quoted, ScanStr(quoted, 2))
    IN  Of(<<Q>> \o text \o <<Q>>)

\* the parse without its second stage
TwoStageParseDirect(text) == Loads(text)

\* the two-stage parse of the decoder: json.loads(text), and when that fails
\* json.loads of the text unescaped as a JSON string literal
TwoStageParse(text) ==
    LET Second(unescaped) ==
            IF unescaped.ok THEN Loads(unescaped.s) ELSE [ok |-> FALSE, v |-> JNull]
        First(direct) == IF direct.ok THEN direct ELSE Second(Unescape(text))
    IN  First(Loads(text))

\* the payload passed through as it came
ChunkedDataRaw(f) == f

\* the payload of a record in chunked mode, from field 2
ChunkedData(f) ==
    LET Parsed(data) == IF data.ok THEN JStr(Dumps(data.v)) ELSE f
    IN  IF f.t = "null" THEN JNull
        ELSE IF f.t = "str" THEN Parsed(TwoStageParse(f.s))
        ELSE JNull

\* the payload handled as the chunked decoder handles it
PlainDataReencoded(f) == ChunkedData(f)

\* the payload of a record in plain mode, from field 2
PlainData(f) == f

\* the loop keeping every element of 7 fields, whatever its first field
TupleFateAnyTag(rpc_data) ==
    IF ~HasLen(rpc_data) THEN "TypeError"
    ELSE IF PyLen(rpc_data) < MinFields THEN "skip"
    ELSE IF rpc_data.t = "obj" THEN "KeyError"
    ELSE IF rpc_data.t = "str" THEN "skip"
    ELSE "keep"

\* what the body of the loop "for rpc_data in rpc_batch" does with one
\* element: raise, skip it, or keep it
TupleFate(rpc_data) ==
    IF ~HasLen(rpc_data) THEN "TypeError"
    ELSE IF PyLen(rpc_data) < MinFields THEN "skip"
    ELSE IF rpc_data.t = "obj" THEN "KeyError"
    ELSE IF rpc_data.t = "str" THEN "skip"
    ELSE IF rpc_data.a[1] # Word(RespTag) THEN "skip"
    ELSE "keep"

\* the record built from a kept tuple; chunked selects the payload handling
RecordOf(rpc_data, chunked) ==
    [Response(rpc_data.a[2],
              IF chunked THEN ChunkedData(rpc_data.a[3])
              ELSE PlainData(rpc_data.a[3]))
        EXCEPT !.index = IndexOf(rpc_data.a[7])]

\* the loop "for rpc_data in rpc_batch" of both decoders: the records of the
\* kept tuples are appended to responses in order, unless an element raises
DecodeTuples(items, chunked, responses) ==
    LET Records(kept) == [k \in 1..Len(kept) |-> RecordOf(kept[k].item, chunked)]
        Result(bad, kept) ==
            IF bad # <<>> THEN Raise(bad[1].f) ELSE Return(responses \o Records(kept))
        Fates(fate) ==
            Result(SelectSeq(fate, LAMBDA e : e.f \notin {"skip", "keep"}),
                   SelectSeq(fate, LAMBDA e : e.f = "keep"))
    IN  Fates([k \in 1..Len(items) |-> [item |-> items[k], f |-> TupleFate(items[k])]])

\* a value that "for rpc_data in v" iterates over; a number, a bool or null
\* raises TypeError
Iterable(v) == v.t \in {"arr", "str", "obj"}

\* what the iteration yields: the elements of an array, the characters of a
\* str, the keys of an object
IterItems(v) ==
    CASE v.t = "arr" -> v.a
      [] v.t = "str" -> [i \in 1..Len(v.s) |-> Word(v.s[i])]
      [] v.t = "obj" -> [i \in 1..(Len(v.a) \div 2) |-> v.a[2 * i - 1]]

\* the loop over a parsed value
DecodeBatch(v, chunked, responses) ==
    IF ~Iterable(v) THEN Raise("TypeError")
    ELSE DecodeTuples(IterItems(v), chunked, responses)

\* Client.decode_response(raw)
decode_response(body) ==
    LET Parsed(data) ==
            IF ~data.ok THEN BatchExecuteError(0, <<"Invalid JSON: ">>, NoResponse)
            ELSE DecodeBatch(data.v, FALSE, <<>>)
        Stripped(raw) ==
            IF raw = <<>>
            THEN BatchExecuteError(0, <<"Empty response after trimming prefix">>,
                                   NoResponse)
            ELSE Parsed(Loads(raw))
    IN  Stripped(LStripChars(body, PrefixChars))

\* a bad length line that only ends the stream, keeping the records so far
BadLengthKeeps(responses) == Return(responses)

\* what a length line that int() rejects does to the decoding
BadLength(responses) ==
    BatchExecuteError(0, <<"Invalid chunk length: invalid syntax">>, NoResponse)

\* a length line without a chunk line only ending the stream
IncompleteKeeps(responses) == Return(responses)

\* what a length line with no line after it does to the decoding
Incomplete(responses) == BatchExecuteError(0, <<"Incomplete chunk">>, NoResponse)

\* a chunk line that fails both parses costing the records kept so far
BadChunkDropsAll(responses) == Return(<<>>)

\* what a chunk line that fails both parses does to the decoding: nothing,
\* the loop goes on with the records kept so far
BadChunk(responses) == Return(responses)

\* an empty length line taking the line after it along
AfterEmptyLineSkipsChunk(i) == i + 2

\* the line index after an empty length line
AfterEmptyLine(i) == i + 1

\* one iteration of the while loop of decode_chunked_response at line index
\* i (1-based): the index and the records it leaves, or the exception raised
LineStep(lines, i, responses) ==
    LET Continue(j, rs) == [stop |-> FALSE, i |-> j, result |-> Return(rs)]
        Stop(result) == [stop |-> TRUE, i |-> i, result |-> result]
        Decoded(r) == IF r.exc # "" THEN Stop(r) ELSE Continue(i + 2, r.value)
        Chunk(rpc_batch) ==
            IF ~rpc_batch.ok THEN Decoded(BadChunk(responses))
            ELSE Decoded(DecodeBatch(rpc_batch.v, TRUE, responses))
        Length(length_str) ==
            IF length_str = <<>> THEN Continue(AfterEmptyLine(i), responses)
            ELSE IF ~PyInt(length_str).ok
            THEN Stop(BadLength(responses))
            ELSE IF i + 1 > Len(lines)
            THEN Stop(Incomplete(responses))
            ELSE Chunk(TwoStageParse(lines[i + 1]))
    IN  Length(Strip(lines[i]))

RECURSIVE DecodeLines(_, _, _)
\* the while loop of decode_chunked_response from line index i on, and the
\* check that follows it
DecodeLines(lines, i, responses) ==
    LET Step(st) ==
            IF st.stop THEN st.result ELSE DecodeLines(lines, st.i, st.result.value)
    IN  IF i > Len(lines)
        THEN IF responses = <<>>
             THEN BatchExecuteError(0, <<"No valid responses found">>, NoResponse)
             ELSE Return(responses)
        ELSE Step(LineStep(lines, i, responses))

\* Client.decode_chunked_response(raw)
decode_chunked_response(body) ==
    LET Stripped(raw) ==
            IF raw = <<>>
            THEN BatchExecuteError(0, <<"Empty response after trimming prefix">>,
                                   NoResponse)
            ELSE DecodeLines(Split(raw, NL), 1, <<>>)
    IN  Stripped(Strip(LStripChars(body, PrefixChars)))

(***************************************************************************)
(* Python dicts: a sequence of key/value entries in insertion order        *)
(***************************************************************************)
EmptyDict == <<>>

DictHas(d, k) == \E i \in 1..Len(d) : d[i].k = k

DictGet(d, k) == d[CHOOSE i \in 1..Len(d) : d[i].k = k].v

\* d[k] = v
DictSet(d, k, v) ==
    IF DictHas(d, k)
    THEN [i \in 1..Len(d) |-> IF d[i].k = k THEN [k |-> k, v |-> v] ELSE d[i]]
    ELSE Append(d, [k |-> k, v |-> v])

RECURSIVE DictUpdate(_, _)
\* d.update(e)
DictUpdate(d, e) ==
    IF e = <<>> THEN d ELSE DictUpdate(DictSet(d, e[1].k, e[1].v), Tail(e))

(***************************************************************************)
(* The request-id generator                                                *)
(***************************************************************************)
BaseMin == 1000

BaseMax == 9999

Step == 100000

\* ReqIDGenerator(): random.randint(1000, 9999) draws the base; the ends of
\* the range stand for it
BaseValues == {BaseMin, BaseMax}

\* the id computed without the step: the base plus the counter
ReqIdCounted(g) == g.base + g.sequence

\* the id that next() computes from the generator state g
ReqId(g) == g.base + (g.sequence * Step)

\* next() with the counter advanced by two
AfterNextSkips(g) == [g EXCEPT !.sequence = g.sequence + 2]

\* the generator state that next() leaves
AfterNext(g) == [g EXCEPT !.sequence = g.sequence + 1]

\* reset() with the base drawn anew and the sequence left at one
AfterResetRedraws(g) == [base |-> BaseMin + 1, sequence |-> 1]

\* the generator state that reset() leaves
AfterReset(g) == [g EXCEPT !.sequence = 0]

(***************************************************************************)
(* The envelope encoder and the request construction                       *)
(***************************************************************************)
\* RPC(id, args, index, url_params)
RPC(id, args, index, url_params) ==
    [id |-> id, args |-> args, index |-> index, url_params |-> url_params]

\* the 4th element that build_rpc_data puts in the tuple of a call
IndexTag(rpc) == <<"generic">>

\* Client.build_rpc_data(rpc)
build_rpc_data(rpc) ==
    JArr(<<JStr(rpc.id), JStr(Dumps(rpc.args)), JNull, JStr(IndexTag(rpc))>>)

\* the envelope: build_rpc_data of every call, in order
Envelope(rpcs) == [i \in 1..Len(rpcs) |-> build_rpc_data(rpcs[i])]

\* the form data of the request
FormData(cfg, rpcs) ==
    <<[k |-> "f.req", v |-> Dumps(JArr(<<JArr(Envelope(rpcs))>>))],
      [k |-> "at", v |-> cfg.auth_token]>>

\* the url of the request
Url(cfg) ==
    <<IF cfg.use_http THEN "http" ELSE "https", "://">> \o cfg.host
        \o <<"/_/">> \o cfg.app \o <<"/data/batchexecute">>

\* the parameters that execute sets itself, on top of the configured ones
OwnParams(params, rpcs, reqid) ==
    DictSet(DictSet(DictSet(params,
        "rpcids", Join([i \in 1..Len(rpcs) |-> rpcs[i].id], <<",">>)),
        "rt", <<"c">>),
        "_reqid", reqid)

\* the request-specific parameters merged last
CallParams(rpcs) == IF rpcs # <<>> THEN rpcs[1].url_params ELSE EmptyDict

\* the query parameters with the configured ones merged last
ParamsConfigLast(cfg, rpcs, reqid) ==
    DictUpdate(DictUpdate(OwnParams(EmptyDict, rpcs, reqid), CallParams(rpcs)),
               cfg.url_params)

\* the query parameters of the request
Params(cfg, rpcs, reqid) ==
    DictUpdate(OwnParams(cfg.url_params, rpcs, reqid), CallParams(rpcs))

ContentType == <<"application/x-www-form-urlencoded;charset=UTF-8">>

\* url_params of the Config used in place of a copy: the assignments and
\* the update of execute land in the Config
ConfigAfterAliased(cfg, rpcs, reqid) ==
    [cfg EXCEPT !.url_params = DictUpdate(OwnParams(cfg.url_params, rpcs, reqid),
                                          CallParams(rpcs))]

\* the Config after execute: params is dict(self.config.url_params), a
\* copy, and headers is a new dict, so no assignment reaches the Config
ConfigAfter(cfg, rpcs, reqid) == cfg

\* the headers with the cookie set before the merge
HeadersCookieFirst(cfg) ==
    DictUpdate(<<[k |-> "content-type", v |-> ContentType],
                 [k |-> "cookie", v |-> cfg.cookies]>>,
               cfg.headers)

\* the headers of the request
Headers(cfg) ==
    DictSet(DictUpdate(<<[k |-> "content-type", v |-> ContentType]>>, cfg.headers),
            "cookie", cfg.cookies)

\* the request that execute hands to http_client.post
Request(cfg, rpcs, reqid) ==
    [url     |-> Url(cfg),
     params  |-> Params(cfg, rpcs, reqid),
     data    |-> FormData(cfg, rpcs),
     headers |-> Headers(cfg)]

(***************************************************************************)
(* The status classification and the result of execute                     *)
(***************************************************************************)
StatusOK == 200

StatusUnauthorized == 401

\* a status check that lets every 2xx status pass
IsFailureNon2xx(status) == status \notin 200..299

\* response.status_code != 200
IsFailure(status) == status # StatusOK

\* a status classification that knows no UnauthorizedError
StatusErrorAllAlike(http) ==
    BatchExecuteError(http.status_code,
        <<"Request failed: ">> \o IntToStr(http.status_code) \o <<SP>> \o http.reason,
        http)

\* the exception that execute raises for a failure status
StatusError(http) ==
    IF http.status_code = StatusUnauthorized THEN UnauthorizedError
    ELSE BatchExecuteError(http.status_code,
             <<"Request failed: ">> \o IntToStr(http.status_code) \o <<SP>>
                 \o http.reason,
             http)

\* plain decoding alone
DecodeBodyPlainOnly(body) == decode_response(body)

\* the records of the body: chunked decoding, and plain decoding when that
\* raised
DecodeBody(body) ==
    LET Chunked(chunked) == IF chunked.exc = "" THEN chunked ELSE decode_response(body)
    IN  Chunked(decode_chunked_response(body))

\* the last record instead of the first
SelectedLast(responses) == <<responses[Len(responses)]>>

\* what execute returns from the list of decoded records
Selected(responses) == <<responses[1]>>

\* execute returning an empty result for a response without records
NoRecordsReturnsEmpty(http) == Return(<<>>)

\* what execute does when the decoders kept no record
NoRecords(http) ==
    BatchExecuteError(http.status_code, <<"No valid responses found">>, http)

\* a second post after a 401 response
PostsRetryOn401(http) == IF http.status_code = StatusUnauthorized THEN 2 ELSE 1

\* the number of calls of http_client.post in one execute: the one call
\* before the status check; no path after it leads back to it
Posts(http) == 1

\* the outcome of execute once the http response is there
Outcome(http) ==
    LET Decoded(decoded) ==
            IF decoded.exc # "" THEN decoded
            ELSE IF decoded.value = <<>>
            THEN NoRecords(http)
            ELSE Return(Selected(decoded.value))
    IN
    IF IsFailure(http.status_code) THEN StatusError(http)
    ELSE Decoded(DecodeBody(http.text))

(***************************************************************************)
(* The inputs of the model                                                 *)
(***************************************************************************)
\* the number of next() calls a generator serves in the model
MaxCalls == 2

\* the number of next() and reset() calls on one generator in SpecGen
MaxOps == 4

\* the number of execute calls one thread makes in SpecThreads
MaxThreadCalls == 2

Clients == {"c1", "c2"}

Entry(k, v) == [k |-> k, v |-> v]

\* Config(host, app, auth_token, cookies, headers, url_params)
Config(auth_token, cookies, headers, url_params) ==
    [host |-> <<"notebooklm.google.com">>, app |-> <<"LabsTailwindUi">>,
     auth_token |-> auth_token, cookies |-> cookies,
     headers |-> headers, url_params |-> url_params,
     debug |-> FALSE, use_http |-> FALSE]

\* configured extra headers: none, harmless ones, and ones that name the
\* headers execute sets itself
ConfigHeaders ==
    <<EmptyDict,
      <<Entry("origin", <<"https://notebooklm.google.com">>)>>,
      <<Entry("cookie", <<"SID=other">>), Entry("content-type", <<"text/plain">>),
        Entry("x-same-domain", <<"1">>)>> >>

\* configured extra url parameters: none, harmless ones, and ones that name
\* the parameters execute sets itself
ConfigParams ==
    <<EmptyDict,
      <<Entry("bl", <<"boq_labs">>), Entry("hl", <<"en">>)>>,
      <<Entry("rt", <<"j">>), Entry("_reqid", <<"7">>), Entry("rpcids", <<"zz">>),
        Entry("source-path", <<"/cfg">>)>> >>

ConfigVariants == 1..3

ConfigOf(c, n) ==
    Config(<<"token-", c>>, <<"SID=", c>>, ConfigHeaders[n], ConfigParams[n])

\* the calls: ids of rpc.py, arguments with nesting and with characters
\* that need escaping, the default and another index tag, url parameters
\* that are absent, new, or name a parameter execute sets itself
rpcA == RPC(<<"wXbhsf">>, JArr(<<JNull, JNum(1)>>), <<"generic">>, EmptyDict)
rpcB == RPC(<<"CCqFvf">>, JArr(<<JStr(<<"a", Q, "b", BS>>), JArr(<<>>)>>), <<"1">>,
            <<Entry("source-path", <<"/notebook/n1">>), Entry("rt", <<"x">>)>>)
rpcC == RPC(<<"rLM1Ne">>, JArr(<<JObj(<<Word("k"), JNum(-2)>>)>>), <<"generic">>,
            <<Entry("_reqid", <<"0">>), Entry("hl", <<"ja">>)>>)

\* a call whose arguments hold a newline, booleans, nested values and a
\* string of a backslash and a quote
rpcD == RPC(<<"izAoDd">>,
            JArr(<<JBool(TRUE), JStr(<<"x", NL, "y">>),
                   JObj(<<Word("k"), JArr(<<JBool(FALSE), JObj(<<Word("q"), JStr(<<BS, Q>>)>>)>>)>>),
                   JStr(<<>>)>>),
            <<"generic">>, EmptyDict)

Rpcs == {rpcA, rpcB, rpcC}

RpcLists ==
    {<<>>, <<rpcA>>, <<rpcB>>, <<rpcA, rpcB>>, <<rpcB, rpcA>>, <<rpcC, rpcA, rpcB>>}

\* a response tuple of 7 fields
Tuple(tag, id, payload, index) ==
    JArr(<<Word(tag), JStr(id), payload, JNull, JNull, JNull, index>>)

\* a payload as the service sends it: the JSON text of a value, as a string
Encoded(v) == JStr(Dumps(v))

Prefix == <<")", "]", "}", "'">>

\* the body of a chunked response: the prefix, an empty line, and for every
\* chunk its length line and its JSON line
ChunkedBody(chunks) ==
    Prefix \o <<NL, NL>>
        \o Join([i \in 1..Len(chunks) |->
                    IntToStr(Len(Dumps(JArr(chunks[i])))) \o <<NL>>
                        \o Dumps(JArr(chunks[i]))],
                <<NL>>)
        \o <<NL>>

\* the body of a plain response: the prefix and one JSON array of tuples
PlainBody(tuples) == Prefix \o <<NL>> \o Dumps(JArr(tuples))

tupA == Tuple("wrb.fr", <<"wXbhsf">>, Encoded(JArr(<<JNum(1), Word("x")>>)), Word("generic"))
tupB == Tuple("wrb.fr", <<"CCqFvf">>, Encoded(JObj(<<Word("a"), JNum(1)>>)), Word("1"))
tupC == Tuple("wrb.fr", <<"rLM1Ne">>, JNull, Word("2"))
tupD == Tuple("di", <<"wXbhsf">>, JNum(5), Word("generic"))
tupE == JArr(<<Word("e"), JNum(4), JNull, JNull, JNum(140)>>)

\* the streams of tuples the service answers with, chunk by chunk
Streams ==
    {<< <<tupA>> >>,
     << <<tupD, tupA, tupB>>, <<tupE>> >>,
     << <<tupB>>, <<tupD>>, <<tupC, tupA>> >>,
     << <<tupD>>, <<tupE>> >>}

Bodies ==
    {ChunkedBody(st) : st \in Streams}
        \cup {PlainBody(<<tupB, tupD, tupA>>), PlainBody(<<tupD>>), Prefix \o <<NL>>,
              <<"<html>">>}

\* the JSON line of a chunk, and its length line
ChunkLine(chunk) == Dumps(JArr(chunk))

LenLine(chunk) == IntToStr(Len(ChunkLine(chunk)))

\* a body of the prefix, an empty line and the lines given
FramedBody(lines) == Prefix \o <<NL, NL>> \o Join(lines, <<NL>>) \o <<NL>>

\* the length line and the JSON line of every chunk, in order
ChunkLines(chunks) ==
    Join([i \in 1..Len(chunks) |-> <<LenLine(chunks[i]), ChunkLine(chunks[i])>>], <<>>)

\* length lines that int() rejects
BadLengths == {<<"zz">>, <<"4", "x">>, <<"2", ".", "5">>}

\* chunks that each hold a wrb.fr tuple
GoodChunks == << <<tupA>>, <<tupD, tupB>> >>

\* a stream with a length line that is no integer after k well-formed
\* chunks, and a well-formed chunk after it
BadLengthBody(k, bad) ==
    FramedBody(ChunkLines(SubSeq(GoodChunks, 1, k))
                   \o <<bad, ChunkLine(<<tupC>>)>> \o ChunkLines(<< <<tupA>> >>))

BadLengthBodies == {BadLengthBody(k, bad) : k \in 0..Len(GoodChunks), bad \in BadLengths}

\* a chunk line that neither parse accepts, before a chunk with a tuple of
\* another tag and a wrb.fr tuple
bodyBadChunk ==
    FramedBody(<< <<"5">>, <<"[", "[", "oops">>, <<"7">>, ChunkLine(<<tupD, tupA>>) >>)

\* a length line with no chunk line after it
bodyIncomplete == FramedBody(<<LenLine(<<tupA>>), ChunkLine(<<tupA>>), <<"9">> >>)

\* a chunk with an element that is no tuple
bodyNullElem ==
    FramedBody(<<LenLine(<<tupA, JNull>>), ChunkLine(<<tupA, JNull>>)>>)

\* a body that is one JSON number
bodyNumber == <<"5">>

\* the example body of the chunked decoder: the prefix, the length line 25
\* and the chunk line [["wrb.fr","id1","{"a":1}",0,0,0,"generic"]], the
\* inner quotes of the payload being plain quotes
bodyExample ==
    Prefix \o <<NL, "2", "5", NL>>
        \o <<"[", "[", Q, "wrb.fr", Q, ",", Q, "id1", Q, ",",
             Q, "{", Q, "a", Q, ":", "1", "}", Q, ",",
             "0", ",", "0", ",", "0", ",", Q, "generic", Q, "]", "]">>
        \o <<NL>>

\* the same body with the inner quotes of the payload escaped
bodyExampleEscaped ==
    Prefix \o <<NL, "2", "5", NL>>
        \o <<"[", "[", Q, "wrb.fr", Q, ",", Q, "id1", Q, ",",
             Q, "{", BS, Q, "a", BS, Q, ":", "1", "}", Q, ",",
             "0", ",", "0", ",", "0", ",", Q, "generic", Q, "]", "]">>
        \o <<NL>>

\* the example body of the plain decoder: the prefix and
\* [["wrb.fr","id2",null,0,0,0,"7"]]
bodyPlainExample ==
    Prefix \o <<NL>>
        \o <<"[", "[", Q, "wrb.fr", Q, ",", Q, "id2", Q, ",", "null", ",",
             "0", ",", "0", ",", "0", ",", Q, "7", Q, "]", "]">>

\* a plain body whose payload is the string {"a":1}, written without spaces,
\* with a short tuple, a tuple of another tag and an index that is no number
bodyPlainCompact ==
    Prefix \o <<NL>>
        \o <<"[", "[", Q, "wrb.fr", Q, ",", Q, "id1", Q, ",",
             Q, "{", BS, Q, "a", BS, Q, ":", "1", "}", Q, ",",
             "0", ",", "0", ",", "0", ",", Q, "generic", Q, "]", ",",
             "[", Q, "wrb.fr", Q, ",", "1", "]", ",",
             "[", Q, "di", Q, ",", Q, "id3", Q, ",", "null", ",",
             "0", ",", "0", ",", "0", ",", Q, "1", Q, "]", ",",
             "[", Q, "wrb.fr", Q, ",", Q, "id4", Q, ",", "7", ",",
             "0", ",", "0", ",", "0", ",", Q, "x9", Q, "]", "]">>

\* chunk lines that fail both parses: cut short, with unescaped quotes
\* inside a string, a lone brace, empty
BadChunkLines ==
    {<<"[", "[", "oops">>,
     <<"[", "[", Q, "wrb.fr", Q, ",", Q, "id1", Q, ",", Q, "{", Q, "a", Q, ":", "1",
       "}", Q, ",", "0", ",", "0", ",", "0", ",", Q, "generic", Q, "]", "]">>,
     <<"{">>, <<>>}

\* a stream with a chunk line that fails both parses after k well-formed
\* chunks, the other well-formed chunks after it
BadChunkBody(k, bad) ==
    FramedBody(ChunkLines(SubSeq(GoodChunks, 1, k)) \o << <<"5">>, bad >>
                   \o ChunkLines(SubSeq(GoodChunks, k + 1, Len(GoodChunks))
                                     \o << <<tupC>> >>))

BadChunkBodies ==
    {BadChunkBody(k, bad) : k \in 0..Len(GoodChunks), bad \in BadChunkLines}

\* length lines that int() accepts
IntLengths == {<<"9">>, <<"1", "_", "0">>, <<"-", "3">>, <<SP, "7">>}

\* a stream that ends with a length line, after k well-formed chunks
IncompleteBody(k, length) ==
    FramedBody(ChunkLines(SubSeq(GoodChunks, 1, k)) \o <<length>>)

IncompleteBodies ==
    {IncompleteBody(k, length) : k \in 0..Len(GoodChunks), length \in IntLengths}

\* the tuples of the plain bodies
PlainTupleLists == {<<tupB, tupD, tupA>>, <<tupD>>, <<tupC, tupE, tupB>>}

\* first fields that are not the string wrb.fr: other tags, the tag in
\* another case or with a space after it, and values that are no string
OtherTags ==
    {Word("di"), Word("WRB.FR"), JStr(<<"wrb.fr", SP>>), JNum(1), JNull,
     JArr(<<Word("wrb.fr")>>)}

\* a tuple of 7 fields with the first field given and an id of its own
Tagged(first) ==
    JArr(<<first, Word("af.httprm"), Encoded(JNum(1)), JNull, JNull, JNull,
           Word("generic")>>)

\* chunked streams with such a tuple before and after wrb.fr tuples
TagChunkedBodies ==
    {ChunkedBody(<< <<Tagged(first), tupA>>, <<tupB, Tagged(first)>> >>) :
        first \in OtherTags}

\* the same tuples as one plain array
TagPlainBodies ==
    {PlainBody(<<Tagged(first), tupA, Tagged(first), tupB>>) : first \in OtherTags}

\* elements of a chunk that are no well-formed wrb.fr tuple: a tuple of 5
\* fields, a tuple of another tag, a wrb.fr tuple whose payload is no JSON,
\* and elements that are no tuple: a string, an object, null, a number and a
\* bool
Malformed ==
    {tupE, tupD, Tuple("wrb.fr", <<"izAoDd">>, Word("oops"), Word("generic")),
     Word("x"), JObj(<<Word("a"), JNum(1)>>), JNull, JNum(5), JBool(TRUE)}

\* chunked streams with such an element after a wrb.fr tuple of its chunk
\* and before the chunk of another one
MalformedChunkedBodies ==
    {ChunkedBody(<< <<tupA, elem>>, <<tupB>> >>) : elem \in Malformed}

\* the same elements in one plain array
MalformedPlainBodies == {PlainBody(<<tupA, elem, tupB>>) : elem \in Malformed}

\* values of field 6, each with the index that the record gets: the literal
\* generic, strings that int() accepts, strings that it rejects, and values
\* that are no string
IndexCases ==
    {[f |-> Word("generic"), index |-> 0],
     [f |-> JStr(<<"7">>), index |-> 7],
     [f |-> JStr(<<"1", "2">>), index |-> 12],
     [f |-> JStr(<<SP, "7">>), index |-> 7],
     [f |-> JStr(<<"-", "3">>), index |-> -3],
     [f |-> JStr(<<"+", "5">>), index |-> 5],
     [f |-> JStr(<<"1", "_", "0">>), index |-> 10],
     [f |-> JStr(<<"x", "9">>), index |-> 0],
     [f |-> JStr(<<"2", ".", "5">>), index |-> 0],
     [f |-> JStr(<<>>), index |-> 0],
     [f |-> Word("Generic"), index |-> 0],
     [f |-> JNull, index |-> 0],
     [f |-> JNum(7), index |-> 0]}

\* a wrb.fr tuple with field 6 given
Indexed(f) == Tuple("wrb.fr", <<"VfAZjd">>, Encoded(JNum(1)), f)

IndexChunkedBodies ==
    {ChunkedBody(<< <<Indexed(c.f)>>, <<tupB>> >>) : c \in IndexCases}

IndexPlainBodies == {PlainBody(<<Indexed(c.f), tupB>>) : c \in IndexCases}

\* the text {"a":1} and the same text with its quotes escaped
textA1 == <<"{", Q, "a", Q, ":", "1", "}">>

textA1Escaped == <<"{", BS, Q, "a", BS, Q, ":", "1", "}">>

\* string payloads that parse directly, each with the value parsed
DirectPayloads ==
    {[f |-> JStr(textA1), v |-> JObj(<<Word("a"), JNum(1)>>)],
     [f |-> Encoded(JArr(<<JNum(1), Word("x")>>)), v |-> JArr(<<JNum(1), Word("x")>>)],
     [f |-> JStr(<<"5">>), v |-> JNum(5)],
     [f |-> JStr(<<Q, "x", Q>>), v |-> Word("x")],
     [f |-> Word("null"), v |-> JNull]}

\* string payloads that parse only after being unescaped
EscapedPayloads ==
    {[f |-> JStr(textA1Escaped), v |-> JObj(<<Word("a"), JNum(1)>>)],
     [f |-> JStr(<<"[", BS, Q, "x", BS, Q, "]">>), v |-> JArr(<<Word("x")>>)]}

\* string payloads that fail both parses
RawPayloads ==
    {Word("oops"), JStr(<<>>), JStr(<<"a", Q, "b">>), JStr(<<"{", NL, "x">>),
     JStr(<<"[", BS, Q, "x">>)}

\* payloads that are JSON values other than a string or null
ValuePayloads ==
    {JNum(7), JBool(TRUE), JArr(<<JNum(1), Word("x")>>), JObj(<<Word("a"), JNum(1)>>)}

\* a wrb.fr tuple with the payload given
Payloaded(f) == Tuple("wrb.fr", <<"hPTbtc">>, f, Word("1"))

\* a chunked stream of that tuple alone
PayloadBody(f) == ChunkedBody(<< <<Payloaded(f)>> >>)

PayloadBodies ==
    {PayloadBody(c.f) : c \in DirectPayloads \cup EscapedPayloads}
        \cup {PayloadBody(f) : f \in RawPayloads \cup ValuePayloads \cup {JNull}}
        \cup {PlainBody(<<Payloaded(f)>>) : f \in ValuePayloads}

\* lines that are empty once stripped, alone and in a row
EmptyLines == {<< <<>> >>, << <<SP>> >>, << <<>>, <<SP, SP>> >>}

\* chunked streams with such lines between two chunks
EmptyLineBodies ==
    {FramedBody(ChunkLines(<< <<tupA>> >>) \o gap \o ChunkLines(<< <<tupD, tupB>> >>)) :
        gap \in EmptyLines}

\* the bodies handed to the decoders directly
DecodeBodies ==
    Bodies \cup BadLengthBodies \cup {PlainBody(tuples) : tuples \in PlainTupleLists}
           \cup BadChunkBodies \cup IncompleteBodies
           \cup TagChunkedBodies \cup TagPlainBodies
           \cup MalformedChunkedBodies \cup MalformedPlainBodies
           \cup IndexChunkedBodies \cup IndexPlainBodies
           \cup PayloadBodies \cup EmptyLineBodies
           \cup {bodyBadChunk, bodyIncomplete,
                 bodyNullElem, bodyNumber, bodyExample, bodyExampleEscaped,
                 bodyPlainExample, bodyPlainCompact, Prefix, <<>>}

\* the bodies of the responses to execute
ExecuteBodies ==
    Bodies \cup {bodyBadChunk, bodyNumber, bodyNullElem, BadLengthBody(1, <<"4", "x">>)}

ReasonOf(status) ==
    CASE status = 200 -> <<"OK">>
      [] status = 204 -> <<"No", SP, "Content">>
      [] status = 302 -> <<"Found">>
      [] status = 401 -> <<"Unauthorized">>
      [] status = 500 -> <<"Internal", SP, "Server", SP, "Error">>

\* the responses the injected http client hands back: every body with
\* status 200, and every other status with a body that decodes and with one
\* that does not
HttpResponses ==
    {HttpResponse(200, ReasonOf(200), b) : b \in ExecuteBodies}
        \cup {HttpResponse(st, ReasonOf(st), b) :
                 st \in {204, 302, 401, 500},
                 b \in {ChunkedBody(<< <<tupA>> >>), <<"<html>">>}}

(***************************************************************************)
(* The state                                                               *)
(***************************************************************************)
VARIABLES
    config,    \* config[c]: the Config of client c
    gen,       \* gen[c]: base and sequence of the ReqIDGenerator of client c
    log,       \* log[c]: the calls served by the generator of c, with results
    last,      \* the call in hand: its arguments, request, response, outcome
    pc,        \* pc[t]: where thread t stands inside ReqIDGenerator.next
    loc,       \* loc[t]: the locals of thread t inside next
    obtained,  \* obtained[t]: the ids next has returned to thread t
    dec,       \* the decoder call in hand: its argument and its outcome
    scan,      \* the while loop of decode_chunked_response: its locals
    iter       \* the iterations of that loop run in the call in hand

vars == <<config, gen, log, last, pc, loc, obtained, dec, scan, iter>>

Threads == {"t1", "t2"}

NoRequest == [url |-> <<>>, params |-> <<>>, data |-> <<>>, headers |-> <<>>]

NoCall ==
    [op |-> "none", client |-> "", rpcs |-> <<>>, request |-> NoRequest,
     posts |-> 0, http |-> NoResponse, result |-> Return(<<>>)]

NoDecode == [op |-> "none", rpcs |-> <<>>, body |-> <<>>, result |-> Return(<<>>)]

\* no call of decode_chunked_response under way
NoScan ==
    [pc |-> "idle", body |-> <<>>, lines |-> <<>>, i |-> 1, responses |-> <<>>,
     read |-> <<>>, result |-> Return(<<>>)]

LogEntry(op, ret) == [op |-> op, ret |-> ret]

\* Client(config): the generator is constructed with the client
Init ==
    /\ \E n \in ConfigVariants : config = [c \in Clients |-> ConfigOf(c, n)]
    /\ gen \in [Clients -> [base : BaseValues, sequence : {0}]]
    /\ log = [c \in Clients |-> <<>>]
    /\ last = NoCall
    /\ pc = [t \in Threads |-> "idle"]
    /\ loc = [t \in Threads |-> [reqid |-> 0, tmp |-> 0]]
    /\ obtained = [t \in Threads |-> <<>>]
    /\ dec = NoDecode
    /\ scan = NoScan
    /\ iter = 0

(***************************************************************************)
(* The operations                                                          *)
(***************************************************************************)
\* one generator of the module shared by every client
OwnerShared(c) == "c1"

\* the generator that client c uses: self.reqid, constructed in __init__
Owner(c) == c

\* ReqIDGenerator.next() on the generator of client c
GenNext(c) ==
    /\ Len(log[c]) < MaxOps
    /\ gen' = [gen EXCEPT ![Owner(c)] = AfterNext(gen[Owner(c)])]
    /\ log' = [log EXCEPT ![c] =
                  Append(@, LogEntry("next", IntToStr(ReqId(gen[Owner(c)]))))]
    /\ UNCHANGED <<scan, iter, dec, config, last, pc, loc, obtained>>

\* ReqIDGenerator.reset() on the generator of client c
GenReset(c) ==
    /\ Len(log[c]) < MaxOps
    /\ gen' = [gen EXCEPT ![Owner(c)] = AfterReset(gen[Owner(c)])]
    /\ log' = [log EXCEPT ![c] = Append(@, LogEntry("reset", <<>>))]
    /\ UNCHANGED <<scan, iter, dec, config, last, pc, loc, obtained>>

\* the body of Client.execute(rpcs) on client c, the http client answering
\* with http; op tells the entry point
Call(op, c, rpcs, http) ==
    LET With(reqid) ==
            /\ gen' = [gen EXCEPT ![Owner(c)] = AfterNext(gen[Owner(c)])]
            /\ log' = [log EXCEPT ![c] = Append(@, LogEntry("next", reqid))]
            /\ config' = [config EXCEPT ![c] = ConfigAfter(config[c], rpcs, reqid)]
            /\ last' = [op |-> op, client |-> c, rpcs |-> rpcs,
                        request |-> Request(config[c], rpcs, reqid),
                        posts |-> Posts(http), http |-> http,
                        result |-> Outcome(http)]
    IN  /\ last.op = "none"
        /\ gen[Owner(c)].sequence < MaxCalls
        /\ With(IntToStr(ReqId(gen[Owner(c)])))
        /\ UNCHANGED <<scan, iter, dec, pc, loc, obtained>>

\* Client.execute(rpcs)
Execute(c, rpcs, http) == Call("execute", c, rpcs, http)

\* Client.do(rpc)
Do(c, rpc, http) == Call("do", c, <<rpc>>, http)

\* the caller takes the record, or handles the exception, and drops it
Consume ==
    /\ last.op # "none"
    /\ last' = NoCall
    /\ UNCHANGED <<scan, iter, dec, config, gen, log, pc, loc, obtained>>

Next ==
    \/ \E c \in Clients, rpcs \in RpcLists, http \in HttpResponses :
          Execute(c, rpcs, http)
    \/ \E c \in Clients, rpc \in Rpcs, http \in HttpResponses : Do(c, rpc, http)
    \/ Consume

Spec == Init /\ [][Next]_vars

NextGen == \E c \in Clients : GenNext(c) \/ GenReset(c)

\* execute on client c within the bound on the operations of a generator
SessionExecute(c, rpcs, http) == Len(log[c]) < MaxOps /\ Execute(c, rpcs, http)

\* the response of the sessions
SessionResponse == HttpResponse(200, ReasonOf(200), ChunkedBody(<< <<tupA>> >>))

NextSessions ==
    \/ \E c \in Clients : GenNext(c)
    \/ \E c \in Clients : GenReset(c)
    \/ \E c \in Clients : SessionExecute(c, <<rpcA>>, SessionResponse)
    \/ Consume

\* two sessions side by side: next(), reset() and execute on either client
SpecSessions == Init /\ [][NextSessions]_vars

\* the generators alone, under any sequence of next() and reset() calls
SpecGen == Init /\ [][NextGen]_vars

(***************************************************************************)
(* Threads that call execute on one client at the same time.  The client   *)
(* holds no lock, so the threads interleave between the reads and the      *)
(* write of ReqIDGenerator.next.                                           *)
(***************************************************************************)
\* the client the threads share
Shared == "c1"

\* reqid = self.base + (self.sequence * 100000)
NextCompute(t) ==
    /\ pc[t] = "idle"
    /\ Len(obtained[t]) < MaxThreadCalls
    /\ loc' = [loc EXCEPT ![t].reqid = ReqId(gen[Shared])]
    /\ pc' = [pc EXCEPT ![t] = "load"]
    /\ UNCHANGED <<scan, iter, dec, config, gen, log, last, obtained>>

\* self.sequence += 1: the read
NextLoad(t) ==
    /\ pc[t] = "load"
    /\ loc' = [loc EXCEPT ![t].tmp = gen[Shared].sequence]
    /\ pc' = [pc EXCEPT ![t] = "store"]
    /\ UNCHANGED <<scan, iter, dec, config, gen, log, last, obtained>>

\* self.sequence += 1: the write
NextStore(t) ==
    /\ pc[t] = "store"
    /\ gen' = [gen EXCEPT ![Shared].sequence = loc[t].tmp + 1]
    /\ pc' = [pc EXCEPT ![t] = "return"]
    /\ UNCHANGED <<scan, iter, dec, config, log, last, loc, obtained>>

\* return str(reqid)
NextReturn(t) ==
    /\ pc[t] = "return"
    /\ obtained' = [obtained EXCEPT ![t] = Append(@, IntToStr(loc[t].reqid))]
    /\ pc' = [pc EXCEPT ![t] = "idle"]
    /\ UNCHANGED <<scan, iter, dec, config, gen, log, last, loc>>

NextThreads ==
    \E t \in Threads : NextCompute(t) \/ NextLoad(t) \/ NextStore(t) \/ NextReturn(t)

SpecThreads == Init /\ [][NextThreads]_vars

(***************************************************************************)
(* The decoders called on their own, and the encoder followed by the       *)
(* chunked decoder on a response that echoes the calls.                    *)
(***************************************************************************)
\* Client.decode_chunked_response(body)
DecodeChunked(body) ==
    /\ dec.op = "none"
    /\ dec' = [op |-> "decode_chunked_response", rpcs |-> <<>>, body |-> body,
               result |-> decode_chunked_response(body)]
    /\ UNCHANGED <<scan, iter, config, gen, log, last, pc, loc, obtained>>

\* Client.decode_response(body)
DecodePlain(body) ==
    /\ dec.op = "none"
    /\ dec' = [op |-> "decode_response", rpcs |-> <<>>, body |-> body,
               result |-> decode_response(body)]
    /\ UNCHANGED <<scan, iter, config, gen, log, last, pc, loc, obtained>>

\* the wrb.fr tuple that echoes the encoded tuple t of a call: its id, its
\* argument string and its index tag
Echo(t) == JArr(<<Word(RespTag), t.a[1], t.a[2], JNull, JNull, JNull, t.a[4]>>)

\* the chunked response that echoes the calls in one chunk
EchoBody(rpcs) ==
    ChunkedBody(<< [i \in 1..Len(rpcs) |-> Echo(build_rpc_data(rpcs[i]))] >>)

\* build_rpc_data on every call, then decode_chunked_response on the echo
RoundTrip(rpcs) ==
    /\ dec.op = "none"
    /\ dec' = [op |-> "round_trip", rpcs |-> rpcs, body |-> EchoBody(rpcs),
               result |-> decode_chunked_response(EchoBody(rpcs))]
    /\ UNCHANGED <<scan, iter, config, gen, log, last, pc, loc, obtained>>

\* the caller takes the records, or handles the exception, and drops them
Forget ==
    /\ dec.op # "none"
    /\ dec' = NoDecode
    /\ UNCHANGED <<scan, iter, config, gen, log, last, pc, loc, obtained>>

NextDecode ==
    \/ \E body \in DecodeBodies : DecodeChunked(body)
    \/ \E body \in DecodeBodies : DecodePlain(body)
    \/ \E rpcs \in RpcLists \cup {<<rpcD>>, <<rpcB, rpcD, rpcC>>} : RoundTrip(rpcs)
    \/ Forget

SpecDecode == Init /\ [][NextDecode]_vars

\* the bodies of the calls whose loop is followed step by step: streams of
\* chunks, with empty lines, with a bad length line, with a length line and
\* no chunk line, with a chunk that fails both parses, with an element that
\* raises, without a wrb.fr tuple, and bodies that are empty once stripped
LoopBodies ==
    {ChunkedBody(st) : st \in Streams} \cup EmptyLineBodies
        \cup {BadLengthBody(1, <<"zz">>), IncompleteBody(2, <<"9">>),
              BadChunkBody(1, <<"[", "[", "oops">>), bodyNullElem, Prefix, <<>>}

\* decode_chunked_response(body) up to its while loop: the prefix and the
\* whitespace are stripped, an empty rest raises, the rest is split in lines
LoopEnter(body) ==
    LET Lines(raw) ==
            IF raw = <<>>
            THEN [NoScan EXCEPT
                    !.pc = "done", !.body = body,
                    !.result = BatchExecuteError(
                                   0, <<"Empty response after trimming prefix">>,
                                   NoResponse)]
            ELSE [NoScan EXCEPT !.pc = "loop", !.body = body,
                                !.lines = Split(raw, NL)]
    IN  /\ scan.pc = "idle"
        /\ scan' = Lines(Strip(LStripChars(body, PrefixChars)))
        /\ iter' = 0
        /\ UNCHANGED <<config, gen, log, last, pc, loc, obtained, dec>>

\* the lines that the iteration at line index i reads: lines[i] as an empty
\* line or as a length line, and lines[i + 1] as a chunk line when the
\* length is an integer and the line is there
ReadBy(lines, i) ==
    IF Strip(lines[i]) = <<>> THEN <<[line |-> i, as |-> "empty"]>>
    ELSE IF ~PyInt(Strip(lines[i])).ok \/ i + 1 > Len(lines)
    THEN <<[line |-> i, as |-> "length"]>>
    ELSE <<[line |-> i, as |-> "length"], [line |-> i + 1, as |-> "chunk"]>>

\* one iteration of the while loop
LoopStep ==
    LET After(st) ==
            IF st.stop
            THEN [scan EXCEPT !.pc = "done", !.result = st.result,
                              !.read = @ \o ReadBy(scan.lines, scan.i)]
            ELSE [scan EXCEPT !.i = st.i, !.responses = st.result.value,
                              !.read = @ \o ReadBy(scan.lines, scan.i)]
    IN  /\ scan.pc = "loop"
        /\ scan.i <= Len(scan.lines)
        /\ scan' = After(LineStep(scan.lines, scan.i, scan.responses))
        /\ iter' = iter + 1
        /\ UNCHANGED <<config, gen, log, last, pc, loc, obtained, dec>>

\* the loop left with every line read: the check for no record, and return
LoopLeave ==
    /\ scan.pc = "loop"
    /\ scan.i > Len(scan.lines)
    /\ scan' = [scan EXCEPT
                   !.pc = "done",
                   !.result = IF scan.responses = <<>>
                              THEN BatchExecuteError(
                                       0, <<"No valid responses found">>, NoResponse)
                              ELSE Return(scan.responses)]
    /\ UNCHANGED <<config, gen, log, last, pc, loc, obtained, dec, iter>>

\* the caller takes the records, or handles the exception
LoopReturn ==
    /\ scan.pc = "done"
    /\ scan' = NoScan
    /\ iter' = 0
    /\ UNCHANGED <<config, gen, log, last, pc, loc, obtained, dec>>

NextLoop ==
    \/ \E body \in LoopBodies : LoopEnter(body)
    \/ LoopStep
    \/ LoopLeave
    \/ LoopReturn

\* an iteration of the while loop takes place: the steps of LoopStep, told
\* by the count of iterations
Iteration ==
    /\ scan.pc = "loop"
    /\ scan.i <= Len(scan.lines)
    /\ iter' = iter + 1

\* the loop is sequential code of one call: a call that stands in the loop
\* runs its next iteration, and one that stands after it runs the return
SpecLoop ==
    Init /\ [][NextLoop]_vars /\ WF_iter(Iteration) /\ WF_vars(LoopLeave)

(***************************************************************************)
(* The request-id generator: properties                                    *)
(***************************************************************************)
\* the id of a log entry read as an integer
IdOf(e) == PyInt(e.ret).n

\* the number of next() calls at the end of a log, since the last reset()
NextsAtEnd(l) ==
    Len(l) - (CHOOSE j \in 0..Len(l) :
                 /\ j = 0 \/ l[j].op = "reset"
                 /\ \A k \in (j + 1)..Len(l) : l[k].op = "next")

\* C1: between two consecutive next() calls with no reset() in between the
\* returned id, read as an integer, grows by exactly 100000 (so it is
\* strictly greater), and every next() adds exactly one to the sequence
\* counter: the counter is the number of next() calls since the last reset().
C1_NextStepsBy100000 ==
    \A c \in Clients :
        /\ \A i \in 1..(Len(log[c]) - 1) :
              log[c][i].op = "next" /\ log[c][i + 1].op = "next"
                  => /\ PyInt(log[c][i].ret).ok /\ PyInt(log[c][i + 1].ret).ok
                     /\ IdOf(log[c][i + 1]) = IdOf(log[c][i]) + 100000
                     /\ IdOf(log[c][i + 1]) > IdOf(log[c][i])
        /\ gen[c].sequence = NextsAtEnd(log[c])

\* three next() calls in a row
C1_Witness ==
    \E c \in Clients :
        /\ Len(log[c]) >= 3
        /\ \A i \in (Len(log[c]) - 2)..Len(log[c]) : log[c][i].op = "next"

\* the id returned by the very first next() of a log
FirstId(l) == l[CHOOSE j \in 1..Len(l) :
                   l[j].op = "next" /\ \A k \in 1..(j - 1) : l[k].op = "reset"].ret

\* the entry that a step appends to the log of c
Appended(c) == log'[c][Len(log'[c])]

\* C2: a next() that directly follows a reset() returns the original base
\* value, which is the id the very first next() of the generator returned;
\* reset() sets the sequence to zero and leaves the base as it is.
C2_ResetThenNextGivesBase ==
    [][\A c \in Clients :
          Len(log'[c]) = Len(log[c]) + 1 =>
              /\ Appended(c).op = "reset" =>
                    gen'[c].sequence = 0 /\ gen'[c].base = gen[c].base
              /\ (Appended(c).op = "next" /\ log[c] # <<>>
                    /\ log[c][Len(log[c])].op = "reset") =>
                    /\ Appended(c).ret = FirstId(log'[c])
                    /\ Appended(c).ret = IntToStr(gen[c].base)]_vars

\* next(), next(), reset(), next() on one generator
C2_Witness ==
    \E c \in Clients :
        /\ Len(log[c]) = 4
        /\ log[c][1].op = "next" /\ log[c][2].op = "next"
        /\ log[c][3].op = "reset" /\ log[c][4].op = "next"

\* the ids that the calls of all threads have obtained
ObtainedIds ==
    UNION {{obtained[t][i] : i \in 1..Len(obtained[t])} : t \in Threads}

\* the number of calls that have returned
ReturnedCalls == Len(obtained["t1"]) + Len(obtained["t2"])

\* C3: when threads call execute on one client at the same time, no two
\* calls obtain the same request id, and no increment of the sequence
\* counter is lost: once every call has returned, the counter equals the
\* number of calls.
C3_ConcurrentIdsDistinct ==
    /\ Cardinality(ObtainedIds) = ReturnedCalls
    /\ (\A t \in Threads : pc[t] = "idle") => gen[Shared].sequence = ReturnedCalls

(***************************************************************************)
(* execute and do: properties                                              *)
(***************************************************************************)
Called == last.op # "none"

Returned == Called /\ last.result.exc = ""

\* the records that the decoder keeps of the response body of the call
KeptRecords == DecodeBody(last.http.text).value

\* C4: the batch function execute returns all records kept by the decoder,
\* in stream order, not only the first one.
C4_ExecuteReturnsAllRecords ==
    (last.op = "execute" /\ Returned) => last.result.value = KeptRecords

\* the tuples of a stream in stream order: chunk by chunk
Flat(stream) == Join(stream, <<>>)

\* the tuples of a sequence that are tagged wrb.fr and have 7 fields
KeptTuples(tuples) ==
    SelectSeq(tuples, LAMBDA tp : Len(tp.a) >= 7 /\ tp.a[1] = Word("wrb.fr"))

\* the envelope that the request of the call carries in f.req
SentEnvelope == Loads(DictGet(last.request.data, "f.req")).v

\* C5: do(rpc) sends a batch of exactly that one call and returns exactly
\* one record, the first that the decoder keeps: of a chunked stream the
\* first wrb.fr tuple in chunk order and tuple order, of a plain body the
\* first wrb.fr tuple of the array.
C5_DoReturnsFirstRecord ==
    last.op = "do" =>
        /\ Len(last.rpcs) = 1
        /\ Len(SentEnvelope.a) = 1 /\ Len(SentEnvelope.a[1].a) = 1
        /\ SentEnvelope.a[1].a[1].a[1] = JStr(last.rpcs[1].id)
        /\ Loads(SentEnvelope.a[1].a[1].a[2].s).v = last.rpcs[1].args
        /\ Returned =>
              /\ Len(last.result.value) = 1
              /\ last.result.value[1] = KeptRecords[1]
              /\ \A st \in Streams :
                    last.http.text = ChunkedBody(st) =>
                        last.result.value[1] = RecordOf(KeptTuples(Flat(st))[1], TRUE)
              /\ last.http.text = PlainBody(<<tupB, tupD, tupA>>) =>
                    last.result.value[1] = RecordOf(tupB, FALSE)

\* do returned, the decoder having kept several records
C5_Witness == last.op = "do" /\ Returned /\ Len(KeptRecords) >= 2

\* C6: a 401 response makes execute raise UnauthorizedError whatever the
\* body holds; no record is returned.
C6_UnauthorizedOn401 ==
    (Called /\ last.http.status_code = 401) =>
        /\ last.result.exc = "UnauthorizedError"
        /\ last.result.value = <<>>

\* a 401 response whose body would decode to a record
C6_Witness ==
    /\ Called /\ last.http.status_code = 401
    /\ DecodeBody(last.http.text).exc = ""
    /\ last.result.exc = "UnauthorizedError"

\* the call raised the error of a failed request, with the status code, the
\* reason text and the response
RequestFailed ==
    /\ last.result.exc = "BatchExecuteError"
    /\ last.result.status_code = last.http.status_code
    /\ last.result.message =
          <<"Request failed: ">> \o IntToStr(last.http.status_code) \o <<SP>>
              \o last.http.reason
    /\ last.result.response = last.http

\* the call went on to decoding: its outcome is that of the decoders
WentOnToDecoding ==
    /\ ~RequestFailed
    /\ DecodeBody(last.http.text).exc # "" => last.result = DecodeBody(last.http.text)
    /\ DecodeBody(last.http.text).exc = "" /\ KeptRecords # <<>> => Returned

ClaimedTuple(rpc) ==
    JArr(<<JStr(rpc.id), JStr(Dumps(rpc.args)), JNull, JStr(rpc.index)>>)

\* C8: f.req is the JSON text of [[t_1, ..., t_n]] with
\* t_i = [id_i, JSON text of args_i, null, index_i] for the i-th call, and
\* the form field at is the configured auth token.
C8_EnvelopeCarriesIndex ==
    Called =>
        /\ Loads(DictGet(last.request.data, "f.req")).ok
        /\ SentEnvelope =
              JArr(<<JArr([i \in 1..Len(last.rpcs) |-> ClaimedTuple(last.rpcs[i])])>>)
        /\ DictGet(last.request.data, "at") = config[last.client].auth_token

DictKeys(d) == {d[i].k : i \in 1..Len(d)}

\* the url parameters of the first call of the batch
FirstCallParams == IF last.rpcs = <<>> THEN <<>> ELSE last.rpcs[1].url_params

\* the id that the call drew from the generator
DrawnId == log[last.client][Len(log[last.client])].ret

\* C9: the query parameters are the configured ones, overridden by rpcids
\* (the ids of all calls, comma-joined, in order), rt = "c" and _reqid (the
\* id drawn from the generator), overridden last by the url parameters of
\* the first call; the parameters of the other calls have no effect.
C9_QueryParams ==
    Called =>
        /\ DictKeys(last.request.params) =
              DictKeys(config[last.client].url_params)
                  \cup {"rpcids", "rt", "_reqid"} \cup DictKeys(FirstCallParams)
        /\ Cardinality(DictKeys(last.request.params)) = Len(last.request.params)
        /\ \A k \in DictKeys(last.request.params) :
              DictGet(last.request.params, k) =
                  IF k \in DictKeys(FirstCallParams) THEN DictGet(FirstCallParams, k)
                  ELSE IF k = "rpcids"
                  THEN Join([i \in 1..Len(last.rpcs) |-> last.rpcs[i].id], <<",">>)
                  ELSE IF k = "rt" THEN <<"c">>
                  ELSE IF k = "_reqid" THEN DrawnId
                  ELSE DictGet(config[last.client].url_params, k)

\* a batch whose first call overrides _reqid, whose last call names rt, and
\* a configuration that names rpcids, rt and _reqid
C9_Witness ==
    /\ Called /\ last.rpcs = <<rpcC, rpcA, rpcB>>
    /\ {"rpcids", "rt", "_reqid"} \subseteq DictKeys(config[last.client].url_params)
    /\ DictGet(last.request.params, "rt") = <<"c">>
    /\ DictGet(last.request.params, "_reqid") = <<"0">>

\* C10: the cookie header is the configured cookie string whatever the
\* configured headers hold, while a configured content-type replaces the
\* fixed one.
C10_CookieSetLast ==
    Called =>
        /\ DictHas(last.request.headers, "cookie")
        /\ DictGet(last.request.headers, "cookie") = config[last.client].cookies
        /\ DictGet(last.request.headers, "content-type") =
              IF DictHas(config[last.client].headers, "content-type")
              THEN DictGet(config[last.client].headers, "content-type")
              ELSE <<"application/x-www-form-urlencoded;charset=UTF-8">>
        /\ Cardinality(DictKeys(last.request.headers)) = Len(last.request.headers)

\* a call under a configuration whose headers name another cookie and
\* another content-type
C10_Witness ==
    /\ Called
    /\ DictHas(config[last.client].headers, "cookie")
    /\ DictGet(config[last.client].headers, "cookie") # config[last.client].cookies
    /\ DictGet(last.request.headers, "content-type") = <<"text/plain">>

(***************************************************************************)
(* The decoders: properties                                                *)
(***************************************************************************)
\* a decoder call raised the error with this message, returning no record
DecodeRaised(message) ==
    /\ dec.result.exc = "BatchExecuteError"
    /\ dec.result.message = message
    /\ dec.result.value = <<>>

\* C11: chunked decoding of a stream with a non-empty length line that is
\* no integer, at the start or after well-formed chunks, raises the framing
\* error and returns no record, the records of the earlier chunks included.
C11_BadLengthAborts ==
    (dec.op = "decode_chunked_response" /\ dec.body \in BadLengthBodies) =>
        DecodeRaised(<<"Invalid chunk length: invalid syntax">>)

\* the bad length line came after two chunks that alone decode to records
C11_Witness ==
    /\ dec.op = "decode_chunked_response"
    /\ dec.body = BadLengthBody(2, <<"4", "x">>)
    /\ Len(decode_chunked_response(FramedBody(ChunkLines(GoodChunks))).value) = 2
    /\ dec.result.exc = "BatchExecuteError"

\* bodies without a kept tuple: every tuple has another tag or is short, or
\* nothing is left once the prefix is stripped
ZeroKeptBodies ==
    {ChunkedBody(<< <<tupD>>, <<tupE>> >>), PlainBody(<<tupD>>), Prefix, <<>>}

\* C12: both decoders raise the error of an empty result for a response
\* with zero kept records, and neither ever returns an empty list.
C12_ZeroRecordsRaise ==
    dec.op \in {"decode_chunked_response", "decode_response"} =>
        /\ dec.body \in ZeroKeptBodies => dec.result.exc = "BatchExecuteError"
        /\ dec.result.exc = "" => dec.result.value # <<>>

\* C13: the calls encoded by build_rpc_data and echoed in a chunked
\* response decode to one record per call, in order, whose id is the id of
\* the call and whose payload is a string that loads to the arguments of
\* the call.
C13_RoundTrip ==
    dec.op = "round_trip" =>
        /\ dec.rpcs # <<>> =>
              dec.result.exc = "" /\ Len(dec.result.value) = Len(dec.rpcs)
        /\ \A i \in 1..Len(dec.rpcs) :
              /\ dec.result.value[i].id = JStr(dec.rpcs[i].id)
              /\ dec.result.value[i].data.t = "str"
              /\ Loads(dec.result.value[i].data.s) =
                    [ok |-> TRUE, v |-> dec.rpcs[i].args]

\* three calls made the round trip, two with arguments that need escaping
C13_Witness ==
    /\ dec.op = "round_trip" /\ dec.rpcs = <<rpcB, rpcD, rpcC>>
    /\ Len(dec.result.value) = 3

\* the JSON object {"a": 1}
objA1 == JObj(<<Word("a"), JNum(1)>>)

\* the decoder returned exactly one record, with this id and index and a
\* string payload that loads to v
OneRecord(id, v, index) ==
    /\ dec.result.exc = "" /\ Len(dec.result.value) = 1
    /\ dec.result.value[1].id = Word(id)
    /\ dec.result.value[1].index = index
    /\ dec.result.value[1].data.t = "str"
    /\ Loads(dec.result.value[1].data.s) = [ok |-> TRUE, v |-> v]

\* C14 as stated: chunked decoding of the example body, the inner quotes of
\* the payload as given, yields exactly one record: id "id1", a payload
\* that decodes to {"a":1}, index 0.
C14_ExampleYieldsRecord ==
    (dec.op = "decode_chunked_response" /\ dec.body = bodyExample) =>
        OneRecord("id1", objA1, 0)

\* C14 amended: the chunk line of the example body as given is no JSON and
\* no JSON string literal, so the chunk is skipped and decoding raises the
\* error of an empty result; with the inner quotes of the payload escaped,
\* decoding yields exactly one record: id "id1", the payload re-serialized
\* as {"a": 1}, index 0.
C14_ExampleNeedsEscapes ==
    dec.op = "decode_chunked_response" =>
        /\ dec.body = bodyExample => DecodeRaised(<<"No valid responses found">>)
        /\ dec.body = bodyExampleEscaped =>
              /\ OneRecord("id1", objA1, 0)
              /\ dec.result.value[1].data = JStr(Dumps(objA1))

\* the example body as given was decoded, and neither parse accepts its
\* chunk line
C14_Witness ==
    /\ dec.op = "decode_chunked_response" /\ dec.body = bodyExample
    /\ ~TwoStageParse(Split(bodyExample, NL)[3]).ok
    /\ dec.result.exc = "BatchExecuteError"

\* the record of a tuple with field 2 as it is
PlainRecord(t) ==
    [id |-> t.a[2], data |-> t.a[3], index |-> IndexOf(t.a[7]), error |-> <<>>]

\* the payload string {"a":1}, written without spaces
compactA1 == JStr(<<"{", Q, "a", Q, ":", "1", "}">>)

\* C15: plain decoding strips the prefix, parses the rest as one array of
\* tuples and yields, for every wrb.fr tuple of 7 fields or more and in
\* order, a record with the id of field 1, the payload of field 2 unchanged
\* (a string is not re-serialized, null stays null) and the index of field
\* 6; the example tuple ["wrb.fr","id2",null,0,0,0,"7"] yields one record
\* with id "id2", payload null and index 7.
C15_PlainPassesThrough ==
    dec.op = "decode_response" =>
        /\ dec.body = bodyPlainExample =>
              dec.result =
                  Return(<<[id |-> Word("id2"), data |-> JNull, index |-> 7,
                            error |-> <<>>]>>)
        /\ \A tuples \in PlainTupleLists :
              dec.body = PlainBody(tuples) =>
                  dec.result =
                      Return([i \in 1..Len(KeptTuples(tuples)) |->
                                 PlainRecord(KeptTuples(tuples)[i])])
        /\ dec.body = bodyPlainCompact =>
              /\ dec.result.exc = "" /\ Len(dec.result.value) = 2
              /\ dec.result.value[1].data = compactA1
              /\ dec.result.value[1].index = 0
              /\ dec.result.value[2].data = JNum(7)

\* a plain body with a string payload that re-serialization would change
\* was decoded
C15_Witness ==
    /\ dec.op = "decode_response" /\ dec.body = bodyPlainCompact
    /\ Dumps(Loads(compactA1.s).v) # compactA1.s
    /\ Len(dec.result.value) = 2

SinceReset(l) ==
    LET From(j) == SubSeq(l, j + 1, Len(l))
    IN  From(CHOOSE j \in 0..Len(l) :
                /\ j = 0 \/ l[j].op = "reset"
                /\ \A k \in (j + 1)..Len(l) : l[k].op = "next")

\* the session of client c sees the ids of its own generator: the k-th id
\* since its last reset is base + (k - 1) * 100000, and its counter counts
\* them
OwnIds(c) ==
    /\ gen[c].sequence = Len(SinceReset(log[c]))
    /\ \A k \in 1..Len(SinceReset(log[c])) :
          SinceReset(log[c])[k].ret = IntToStr(gen[c].base + (k - 1) * Step)

\* a step in which client c is served: its log grows
Served(c) == log'[c] # log[c]

\* C17: next(), reset() and execute on one client leave the base and the
\* sequence counter of every other client as they are, and the ids a
\* session sees are those of its own generator whatever the other session
\* does.
C17_GeneratorOwnedByClient ==
    /\ [](\A c \in Clients : OwnIds(c))
    /\ [][\A c \in Clients : ~Served(c) => gen'[c] = gen[c]]_vars

\* both sessions drew ids, one of them through execute, and one was reset
C17_Witness ==
    /\ last.op = "execute" /\ last.client = "c1"
    /\ Len(log["c1"]) >= 2 /\ Len(log["c2"]) >= 3
    /\ \E k \in 1..Len(log["c2"]) : log["c2"][k].op = "reset"
    /\ gen["c1"].sequence # gen["c2"].sequence

\* the Configs are those the clients were constructed with
ConfigAsConstructed ==
    \E n \in ConfigVariants : config = [c \in Clients |-> ConfigOf(c, n)]

\* every query parameter of the call that the call does not supply itself,
\* and that execute does not set, is a configured one with its configured
\* value
NoForeignParams ==
    \A k \in DictKeys(last.request.params)
            \ (DictKeys(FirstCallParams) \cup {"rpcids", "rt", "_reqid"}) :
        \E n \in ConfigVariants :
            /\ config[last.client] = ConfigOf(last.client, n)
            /\ DictHas(ConfigParams[n], k)
            /\ DictGet(last.request.params, k) = DictGet(ConfigParams[n], k)

BodyTuples == {tupA, tupB, tupC, tupD, tupE}

\* the text sub occurs in the text
Occurs(sub, text) ==
    \E i \in 1..(Len(text) - Len(sub) + 1) : SubSeq(text, i, i + Len(sub) - 1) = sub

\* the record was built from a tuple of the body that is tagged wrb.fr and
\* has 7 fields or more
BuiltFromKeptTuple(record, text) ==
    \E t \in BodyTuples :
        /\ Len(t.a) >= 7 /\ t.a[1] = Word("wrb.fr")
        /\ Occurs(Dumps(t), text)
        /\ record \in {RecordOf(t, TRUE), RecordOf(t, FALSE)}

\* the bodies of the model without a wrb.fr tuple of 7 fields in a place
\* where a decoder finds it
NothingToKeep(text) == \A t \in {tupA, tupB, tupC} : ~Occurs(Dumps(t), text)

\* C19: when execute returns, the status was 200 and the value is one
\* record built from a wrb.fr tuple of the body with 7 fields or more; a
\* failure status, an empty body, a body that does not decode and a body
\* without a kept tuple make it raise, and it never returns an empty result.
C19_NothingSwallowed ==
    Called =>
        /\ Returned =>
              /\ last.http.status_code = 200
              /\ Len(last.result.value) = 1
              /\ BuiltFromKeptTuple(last.result.value[1], last.http.text)
        /\ last.http.status_code # 200 => ~Returned
        /\ NothingToKeep(last.http.text) => ~Returned
        /\ ~Returned =>
              last.result.exc \in {"UnauthorizedError", "BatchExecuteError", "TypeError"}

\* plain decoding kept no record of a 200 response, and execute raised
C19_Witness ==
    /\ Called /\ last.http.status_code = 200
    /\ decode_chunked_response(last.http.text).exc # ""
    /\ decode_response(last.http.text) = Return(<<>>)
    /\ last.result.exc = "BatchExecuteError"

\* what execute makes of the outcome of a decoder
FromDecoder(decoded) ==
    IF decoded.exc # "" THEN last.result = decoded
    ELSE IF decoded.value = <<>> THEN last.result.exc = "BatchExecuteError"
    ELSE last.result = Return(<<decoded.value[1]>>)

\* C20: when chunked decoding of a 200 response returns a record, the
\* result of execute is the first record of the chunked decoder, also when
\* that decoder skipped a chunk or a tuple on its way; only when chunked
\* decoding raised is the result that of plain decoding.
C20_PlainOnlyAfterChunkedRaised ==
    (Called /\ last.http.status_code = 200) =>
        /\ decode_chunked_response(last.http.text).exc = "" =>
              last.result = Return(<<decode_chunked_response(last.http.text).value[1]>>)
        /\ decode_chunked_response(last.http.text).exc # "" =>
              FromDecoder(decode_response(last.http.text))
        /\ last.http.text = bodyBadChunk =>
              last.result = Return(<<RecordOf(tupA, TRUE)>>)

\* the chunked decoder skipped a chunk that does not parse and a tuple of
\* another tag and kept a record, on a body that plain decoding rejects
C20_Witness ==
    /\ Called /\ last.http.status_code = 200 /\ last.http.text = bodyBadChunk
    /\ decode_response(bodyBadChunk).exc = "BatchExecuteError"
    /\ Returned

(***************************************************************************)
(* The chunked decoder: chunks, tuples, fields                             *)
(***************************************************************************)
\* the records of the kept tuples of a stream, in stream order
ChunkedRecords(chunks) ==
    [i \in 1..Len(KeptTuples(Flat(chunks))) |-> RecordOf(KeptTuples(Flat(chunks))[i], TRUE)]

\* C21: a chunk line that fails the direct parse and the parse after
\* unescaping is skipped without raising: the records of all well-formed
\* chunks before it and after it are returned, in order.
C21_BadChunkSkipped ==
    (dec.op = "decode_chunked_response" /\ dec.body \in BadChunkBodies) =>
        dec.result = Return(ChunkedRecords(GoodChunks \o << <<tupC>> >>))

\* the bad chunk line stood between well-formed chunks with kept tuples
C21_Witness ==
    /\ dec.op = "decode_chunked_response"
    /\ dec.body = BadChunkBody(1, <<"[", "[", "oops">>)
    /\ ~TwoStageParse(<<"[", "[", "oops">>).ok
    /\ Len(dec.result.value) = 3

\* C22: a length line that is an integer and the last line of the stream
\* raises the framing error of an incomplete chunk; no record is returned,
\* those of the chunks before it included.
C22_TrailingLengthAborts ==
    (dec.op = "decode_chunked_response" /\ dec.body \in IncompleteBodies) =>
        DecodeRaised(<<"Incomplete chunk">>)

\* the trailing length line came after two chunks with kept tuples
C22_Witness ==
    /\ dec.op = "decode_chunked_response"
    /\ dec.body = IncompleteBody(2, <<"9">>)
    /\ Len(ChunkedRecords(GoodChunks)) = 2
    /\ dec.result.exc = "BatchExecuteError"

\* the ids of the records that the decoder returned
DecodedIds == {dec.result.value[i].id : i \in 1..Len(dec.result.value)}

\* C23: in both decode modes a tuple whose first field is not the string
\* wrb.fr is dropped without raising: the output of a stream that mixes such
\* tuples with wrb.fr tuples is exactly the records of the wrb.fr tuples, in
\* order, and no record of any decoding carries the id of such a tuple.
C23_OnlyTaggedTuplesKept ==
    /\ (dec.op = "decode_chunked_response" /\ dec.body \in TagChunkedBodies) =>
           dec.result = Return(ChunkedRecords(<< <<tupA>>, <<tupB>> >>))
    /\ (dec.op = "decode_response" /\ dec.body \in TagPlainBodies) =>
           dec.result = Return(<<PlainRecord(tupA), PlainRecord(tupB)>>)
    /\ Tagged(JNull).a[2] \notin DecodedIds

C23_Witness ==
    /\ dec.op = "decode_response"
    /\ dec.body = PlainBody(<<Tagged(JNum(1)), tupA, Tagged(JNum(1)), tupB>>)
    /\ TupleFate(Tagged(JNum(1))) = "skip"
    /\ Len(dec.result.value) = 2

\* the decoder returned, and its records hold r1 and, after it, r2
ReturnedBoth(r1, r2) ==
    /\ dec.result.exc = ""
    /\ \E i, j \in 1..Len(dec.result.value) :
           i < j /\ dec.result.value[i] = r1 /\ dec.result.value[j] = r2

\* C24: a malformed element of a chunk (a tuple of fewer than 7 fields, a
\* tuple of another tag, a tuple with an unparsable payload, an element that
\* is no tuple) raises nothing, and the well-formed wrb.fr tuples of its chunk
\* and of the other chunks are still returned, in both decode modes.
C24_MalformedElementNotFatal ==
    /\ (dec.op = "decode_chunked_response" /\ dec.body \in MalformedChunkedBodies) =>
           ReturnedBoth(RecordOf(tupA, TRUE), RecordOf(tupB, TRUE))
    /\ (dec.op = "decode_response" /\ dec.body \in MalformedPlainBodies) =>
           ReturnedBoth(PlainRecord(tupA), PlainRecord(tupB))

\* the elements that are tuples, and the strings and objects shorter than 7,
\* are skipped or kept and the other records returned
C24_TuplesNotFatal ==
    \A elem \in Malformed :
        (/\ dec.op = "decode_chunked_response"
         /\ dec.body = ChunkedBody(<< <<tupA, elem>>, <<tupB>> >>)
         /\ HasLen(elem))
            => ReturnedBoth(RecordOf(tupA, TRUE), RecordOf(tupB, TRUE))

C24_Witness ==
    /\ dec.op = "decode_chunked_response"
    /\ dec.body = ChunkedBody(<< <<tupA, JNull>>, <<tupB>> >>)
    /\ dec.result = Raise("TypeError")

\* the decoder returned two records, the first with the id of the indexed
\* tuple and the index given, the second the record of tupB
IndexedAs(index, second) ==
    /\ dec.result.exc = ""
    /\ Len(dec.result.value) = 2
    /\ dec.result.value[1].id = Indexed(JNull).a[2]
    /\ dec.result.value[1].index = index
    /\ dec.result.value[2] = second

\* C25: in both decode modes the index of a record is 0 for field 6
\* "generic", the integer value of field 6 when int() accepts it, and 0
\* otherwise; no value of field 6 raises or drops the record or the one
\* after it.
C25_IndexRule ==
    \A c \in IndexCases :
        /\ (/\ dec.op = "decode_chunked_response"
            /\ dec.body = ChunkedBody(<< <<Indexed(c.f)>>, <<tupB>> >>))
               => IndexedAs(c.index, RecordOf(tupB, TRUE))
        /\ (/\ dec.op = "decode_response"
            /\ dec.body = PlainBody(<<Indexed(c.f), tupB>>))
               => IndexedAs(c.index, PlainRecord(tupB))

C25_Witness ==
    /\ dec.op = "decode_chunked_response"
    /\ dec.body = ChunkedBody(<< <<Indexed(JStr(<<"-", "3">>))>>, <<tupB>> >>)
    /\ dec.result.exc = ""
    /\ dec.result.value[1].index = -3

\* the decoder returned one record, that of the tuple with the payload, and
\* its payload is data
PayloadIs(data) ==
    /\ dec.result.exc = ""
    /\ Len(dec.result.value) = 1
    /\ dec.result.value[1].id = Payloaded(JNull).a[2]
    /\ dec.result.value[1].data = data

\* C26: in chunked decoding a string payload that parses as JSON, directly
\* or after being unescaped as a JSON string literal, gives the parsed value
\* re-serialized, a string that parses to that value again; a string payload
\* that fails both parses is kept unchanged; a null payload stays null.
C26_ChunkedPayload ==
    dec.op = "decode_chunked_response" =>
        /\ \A c \in DirectPayloads \cup EscapedPayloads :
               dec.body = PayloadBody(c.f) =>
                   /\ PayloadIs(JStr(Dumps(c.v)))
                   /\ Loads(dec.result.value[1].data.s) = [ok |-> TRUE, v |-> c.v]
        /\ \A f \in RawPayloads : dec.body = PayloadBody(f) => PayloadIs(f)
        /\ dec.body = PayloadBody(JNull) => PayloadIs(JNull)

C26_Witness ==
    /\ dec.op = "decode_chunked_response"
    /\ dec.body = PayloadBody(JStr(textA1Escaped))
    /\ ~Loads(textA1Escaped).ok
    /\ PayloadIs(JStr(<<"{", Q, "a", Q, ":", SP, "1", "}">>))

\* C29: chunked decoding loses no payload: a kept tuple whose field 2 is not
\* null gives a record whose payload is not null, and for a field 2 that is
\* a number, a bool, an array or an object the payload is the one that plain
\* decoding gives.
C29_ChunkedKeepsPayload ==
    dec.op = "decode_chunked_response" =>
        /\ \A c \in DirectPayloads \cup EscapedPayloads :
               dec.body = PayloadBody(c.f) =>
                   dec.result.exc = "" /\ dec.result.value[1].data # JNull
        /\ \A f \in RawPayloads :
               dec.body = PayloadBody(f) =>
                   dec.result.exc = "" /\ dec.result.value[1].data # JNull
        /\ \A f \in ValuePayloads :
               dec.body = PayloadBody(f) =>
                   PayloadIs(decode_response(PlainBody(<<Payloaded(f)>>)).value[1].data)

\* the part that holds: string payloads give a payload that is not null,
\* and plain decoding passes every value through
C29_StringPayloadKept ==
    /\ dec.op = "decode_chunked_response" =>
           /\ \A c \in DirectPayloads \cup EscapedPayloads :
                  dec.body = PayloadBody(c.f) =>
                      dec.result.exc = "" /\ dec.result.value[1].data # JNull
           /\ \A f \in RawPayloads :
                  dec.body = PayloadBody(f) =>
                      dec.result.exc = "" /\ dec.result.value[1].data # JNull
    /\ dec.op = "decode_response" =>
           \A f \in ValuePayloads :
               dec.body = PlainBody(<<Payloaded(f)>>) => PayloadIs(f)

C29_Witness ==
    /\ dec.op = "decode_chunked_response"
    /\ dec.body = PayloadBody(JNum(7))
    /\ PayloadIs(JNull)

\* the ids that the calls of client c drew, in the order of the calls: the
\* i-th is base + (i - 1) * 100000, whatever the calls came to
IdsOfCalls(c) ==
    /\ gen[c].sequence = Len(log[c])
    /\ \A i \in 1..Len(log[c]) :
           /\ log[c][i].op = "next"
           /\ IdOf(log[c][i]) = gen[c].base + (i - 1) * 100000
    /\ \A i, j \in 1..Len(log[c]) : i < j => IdOf(log[c][i]) # IdOf(log[c][j])

\* a step that is a call of execute on client c: it draws one id, whatever
\* the outcome of the call, and sends it as _reqid unless the parameters of
\* the call name a _reqid of their own; no step draws the base of a
\* generator anew or sets its counter back
CallDrawsId(c) ==
    /\ gen'[c].base = gen[c].base
    /\ gen'[c].sequence >= gen[c].sequence
    /\ (last'.op # "none" /\ last'.client = c) =>
           /\ Len(log'[c]) = Len(log[c]) + 1
           /\ gen'[c].sequence = gen[c].sequence + 1
           /\ ~DictHas(CallParams(last'.rpcs), "_reqid") =>
                  DictGet(last'.request.params, "_reqid") = log'[c][Len(log'[c])].ret

\* C27: over the execute calls on one client, whatever their outcomes, the
\* ids drawn for _reqid are pairwise distinct and each is 100000 more than
\* the one before; every call draws its id and sends it, a failed call
\* included, and the generator is never reset.
C27_ExecuteIdsAdvance ==
    /\ [](\A c \in Clients : IdsOfCalls(c))
    /\ [][\A c \in Clients : CallDrawsId(c)]_vars

\* the second call on a client, after it failed with a 401 response
C27_Witness ==
    /\ Called /\ last.result.exc = "UnauthorizedError"
    /\ Len(log[last.client]) = 2
    /\ IdOf(log[last.client][2]) = IdOf(log[last.client][1]) + 100000
    /\ DictGet(last.request.params, "_reqid") = log[last.client][2].ret

\* C28: the record that do(rpc) returns answers the call sent: its id is
\* rpc.id, also when the response holds wrb.fr records with other ids, more
\* records than calls, or records in another order.
C28_DoAnswersItsCall ==
    (last.op = "do" /\ Returned) => last.result.value[1].id = JStr(last.rpcs[1].id)

\* the part that holds: do returns the first record kept, so its id is
\* rpc.id when the first wrb.fr record of the response is the answer
C28_FirstRecordAnswers ==
    (last.op = "do" /\ Returned /\ KeptRecords[1].id = JStr(last.rpcs[1].id))
        => last.result.value[1].id = JStr(last.rpcs[1].id)

\* do(rpcA) returned the record of another call, the response holding the
\* record with the id of rpcA after it
C28_Witness ==
    /\ last.op = "do" /\ Returned
    /\ last.rpcs[1].id = <<"wXbhsf">>
    /\ last.result.value[1].id = Word("CCqFvf")
    /\ \E i \in 2..Len(KeptRecords) : KeptRecords[i].id = Word("wXbhsf")

\* the call ended by returning a list of records that is not empty, or by
\* raising; the outcome is that of decode_chunked_response
Ended ==
    scan.pc = "done" =>
        /\ scan.result.exc # "" \/ scan.result.value # <<>>
        /\ scan.result = decode_chunked_response(scan.body)

\* no line is read twice: the lines read are in increasing order and lie
\* before the line index
ReadOnce ==
    /\ \A j, k \in 1..Len(scan.read) : j < k => scan.read[j].line < scan.read[k].line
    /\ scan.pc = "loop" => \A j \in 1..Len(scan.read) : scan.read[j].line < scan.i

\* an iteration that leaves the call in the loop moves the line index
\* forward, by one line on an empty length line, which reads no chunk line
Advances ==
    (scan.pc = "loop" /\ scan'.pc = "loop") =>
        /\ scan'.i > scan.i
        /\ scan'.i = scan.i + Len(scan'.read) - Len(scan.read)
        /\ Strip(scan.lines[scan.i]) = <<>> =>
               /\ scan'.i = scan.i + 1
               /\ scan'.read = Append(scan.read, [line |-> scan.i, as |-> "empty"])
               /\ scan'.responses = scan.responses

\* C30: decode_chunked_response terminates on every body, by returning a
\* list of records that is not empty or by raising: every iteration of its
\* loop moves the line index forward, no line is read twice, and an empty
\* length line takes one line and no chunk line.
C30_ChunkedDecodingTerminates ==
    /\ (scan.pc = "loop") ~> (scan.pc = "done")
    /\ [](Ended /\ ReadOnce)
    /\ [][Advances]_vars

\* a call that returned the records of the chunks before and after two
\* empty lines
C30_Witness ==
    /\ scan.pc = "done"
    /\ scan.result.exc = "" /\ Len(scan.result.value) = 2
    /\ \E k \in 1..Len(scan.read) :
           /\ k < Len(scan.read)
           /\ scan.read[k].as = "empty" /\ scan.read[k + 1].as = "empty"
====
